---- MODULE Spec2Model ----
(***************************************************************************)
(* Green Hydrogen Subsidy Platform: the milestone lifecycle and the        *)
(* subsidy release workflow of the REST backend, as a state machine.       *)
(*                                                                         *)
(* The state is the document store (one Project, its Milestones, the Audit *)
(* collection), the users' KYC status, a clock, and the last request with  *)
(* its response.  One action is one HTTP request handled from the route's  *)
(* middleware chain to the response (requests are handled one at a time in *)
(* Spec), or one run of the scheduler's overdue sweep.                     *)
(*                                                                         *)
(* Framework behaviour the handlers rest on (Mongoose):                    *)
(*  - document.save() validates the document first (the paths loaded from  *)
(*    the store and the modified ones), and runs the schema's pre('save')  *)
(*    hook only after validation passed; a value the hook computes is      *)
(*    stored unvalidated;                                                  *)
(*  - Model.findByIdAndUpdate() writes the given fields and runs no        *)
(*    pre('save') hook;                                                    *)
(*  - a rejected promise in a handler reaches the error handler, which     *)
(*    answers with the error's status code.                                *)
(* Dates are clock values; 0 stands for a Date that is not set.            *)
(***************************************************************************)
EXTENDS Naturals, Integers, Sequences, FiniteSets, TLC

VARIABLES
    kyc,         \* kyc[u]: User.kycStatus of user u (no handler writes it)
    project,     \* the Project document
    milestones,  \* the Milestone collection: milestones[i] is the i-th created
    audits,      \* the Audit collection, in order of creation
    now,         \* the clock (new Date())
    resp,        \* the last step: request, response code, documents saved
    oracle,      \* the oracle service's last fetchMilestoneData run
    inflight     \* requests that have read their documents and not yet written

vars == <<kyc, project, milestones, audits, now, resp, oracle, inflight>>

----------------------------------------------------------------------------
(* Bounds of the model *)

MaxMilestones == 1
MaxAudits == 1
MaxTime == 2
MaxUpdates == 4

----------------------------------------------------------------------------
(* Users and inputs *)

Users == {"g1", "p1", "a1"}

role(u) ==
    CASE u = "g1" -> "government"
      [] u = "p1" -> "producer"
      [] u = "a1" -> "auditor"
      [] OTHER -> "system"

\* User.kycStatus: the schema's enum
KycStatuses == {"pending", "verified", "rejected"}

\* The value requireKYC() asks for is not in the enum: only a user document
\* written to the store past the schema's validators carries it.
KycStored == KycStatuses \cup {"approved"}

SubsidyAmounts == {1, 3}
TotalSubsidies == {2}
PlannedEndDates == {1}
RequirementCounts == {0, 1}
TxHashes == {"0xa1"}
MilestoneIds == 1..MaxMilestones

\* PUT /milestones/:id bodies
MilestoneBodies ==
    { [status |-> "overdue"],
      [released |-> FALSE] }

\* PUT /projects/:id bodies
ProjectBodies ==
    { [released |-> 0],
      [milestoneCount |-> 3] }

----------------------------------------------------------------------------
(* Audit model: audit.model.js *)

EventTypes ==
    { "user_login", "user_logout", "user_registration", "user_profile_update",
      "project_created", "project_updated", "project_status_changed",
      "milestone_created", "milestone_updated", "milestone_completed",
      "subsidy_released", "payment_processed", "document_uploaded",
      "document_accessed", "verification_completed", "approval_granted",
      "approval_rejected", "blockchain_transaction", "oracle_data_update",
      "system_error", "security_alert", "access_denied",
      "authentication_failed", "authorization_failed", "data_export",
      "admin_action" }

AuditActions ==
    { "create", "read", "update", "delete", "approve", "reject", "release",
      "verify", "upload", "download", "login", "logout", "register",
      "transfer", "mint", "burn", "lock", "unlock" }

ResourceTypes ==
    { "user", "project", "milestone", "payment", "document", "system",
      "blockchain" }

AuditCategories ==
    { "authentication", "authorization", "data_access", "data_modification",
      "financial", "system", "security", "compliance", "performance", "error" }

\* The schema's validators on a new Audit document
AuditValid(a) ==
    /\ a.eventType \in EventTypes
    /\ a.action \in AuditActions
    /\ a.resourceType \in ResourceTypes
    /\ a.category \in AuditCategories

\* auditSchema.pre('save'): auto-flag critical and security events
AuditPreSave(a) ==
    IF a.severity = "critical" \/ a.category = "security"
    THEN [a EXCEPT !.flagged = TRUE]
    ELSE a

\* Audit.createAuditLog: new Audit(auditData).save()
createAuditLog(log, a) ==
    IF AuditValid(a)
    THEN [ok |-> TRUE, log |-> Append(log, AuditPreSave(a))]
    ELSE [ok |-> FALSE, log |-> log]

AuditDoc(eventType, actor, resourceType, resourceId, action, category, severity) ==
    [ eventType |-> eventType, actor |-> actor, resourceType |-> resourceType,
      resourceId |-> resourceId, action |-> action, category |-> category,
      severity |-> severity, flagged |-> FALSE,
      reviewed |-> FALSE, reviewedBy |-> "none", reviewedAt |-> 0 ]

\* auditSchema.methods.markAsReviewed, with the save() it ends in
markAsReviewed(a, reviewedBy, today) ==
    AuditPreSave([a EXCEPT !.reviewed = TRUE, !.reviewedBy = reviewedBy,
                           !.reviewedAt = today])

\* auditSchema.methods.flagForReview, with the save() it ends in
flagForReview(a, flaggedBy) ==
    AuditPreSave([a EXCEPT !.flagged = TRUE, !.reviewedBy = flaggedBy])

\* Audit.logUserAction: the event type is resource.type + "_" + action;
\* every caller passes its own category in details
logUserAction(log, userId, action, resourceType, resourceId, category) ==
    createAuditLog(log,
        AuditDoc(resourceType \o "_" \o action, userId, resourceType,
                 resourceId, action, category, "medium"))

\* Audit.logBlockchainTransaction
logBlockchainTransaction(log, txHash, actor) ==
    createAuditLog(log,
        AuditDoc("blockchain_transaction", actor, "blockchain", txHash,
                 "transfer", "financial", "medium"))

\* Audit.logSecurityEvent
logSecurityEvent(log, eventType, actor, severity) ==
    createAuditLog(log,
        AuditDoc(eventType, actor, "system", "Security System", "read",
                 "security", severity))

----------------------------------------------------------------------------
(* Project model: project.model.js *)

\* Math.round((c / n) * 100)
Round(c, n) == (200 * c + n) \div (2 * n)

\* projectSchema.pre('save'), recomputing without rounding to the nearest
ProjectPreSaveFloor(p) ==
    LET p1 == IF p.milestoneCount > 0
              THEN [p EXCEPT !.progressPercentage =
                        (100 * p.completedMilestones) \div p.milestoneCount]
              ELSE p
    IN  IF p1.progressPercentage = 100 /\ p1.status = "active"
        THEN [p1 EXCEPT !.status = "completed"]
        ELSE p1

\* projectSchema.pre('save'), moving a project of any status to completed
ProjectPreSaveAnyStatus(p) ==
    LET p1 == IF p.milestoneCount > 0
              THEN [p EXCEPT !.progressPercentage =
                        Round(p.completedMilestones, p.milestoneCount)]
              ELSE p
    IN  IF p1.progressPercentage = 100
        THEN [p1 EXCEPT !.status = "completed"]
        ELSE p1

\* projectSchema.pre('save')
ProjectPreSave(p) ==
    LET p1 == IF p.milestoneCount > 0
              THEN [p EXCEPT !.progressPercentage =
                        Round(p.completedMilestones, p.milestoneCount)]
              ELSE p
    IN  IF p1.progressPercentage = 100 /\ p1.status = "active"
        THEN [p1 EXCEPT !.status = "completed"]
        ELSE p1

\* The schema's validators on the Project paths of the model
ProjectValid(p) ==
    /\ p.totalSubsidy >= 0
    /\ p.released >= 0
    /\ p.milestoneCount >= 0
    /\ p.completedMilestones >= 0
    /\ p.progressPercentage >= 0
    /\ p.progressPercentage <= 100
    /\ p.status \in {"draft", "pending", "active", "completed", "suspended", "cancelled"}
    /\ p.approvalStatus \in {"pending", "approved", "rejected"}

\* project.save(): validate, then the pre('save') hook, then the write
ProjectSave(p) ==
    IF ProjectValid(p)
    THEN [ok |-> TRUE, doc |-> ProjectPreSave(p)]
    ELSE [ok |-> FALSE, doc |-> p]

\* projectSchema.methods.addMilestone
addMilestone(p) ==
    ProjectSave([p EXCEPT !.milestoneCount = @ + 1])

\* projectSchema.methods.completeMilestone(amount = 0)
Project_completeMilestone(p, amount) ==
    ProjectSave([p EXCEPT !.completedMilestones = @ + 1, !.released = @ + amount])

----------------------------------------------------------------------------
(* Milestone model *)

Statuses == {"pending", "in_progress", "completed", "overdue", "cancelled"}

\* A new Milestone document with the schema's defaults
NewMilestone(amount, nreq, due) ==
    [ subsidyAmount |-> amount,
      plannedEndDate |-> due,
      status |-> "pending",
      completionPercentage |-> 0,
      requirements |-> [i \in 1..nreq |-> FALSE],
      released |-> FALSE,
      releaseTxHash |-> "none",
      isVerified |-> FALSE,
      verifiedBy |-> "none",
      verificationDate |-> 0,
      isApproved |-> FALSE,
      approvedBy |-> "none",
      approvalDate |-> 0,
      updates |-> <<>> ]

\* milestoneSchema.virtual('isOverdue')
isOverdue(d, today) ==
    IF d.status = "completed" THEN FALSE ELSE d.plannedEndDate < today

completedRequirements(d) ==
    Cardinality({i \in DOMAIN d.requirements : d.requirements[i]})

\* milestoneSchema.pre('save')
MilestonePreSave(d, today) ==
    LET d1 == IF d.completionPercentage = 100 /\ d.status # "completed"
              THEN [d EXCEPT !.status = "completed"]
              ELSE d
        d2 == IF isOverdue(d1, today) /\ d1.status = "in_progress"
              THEN [d1 EXCEPT !.status = "overdue"]
              ELSE d1
    IN  IF Len(d2.requirements) > 0
        THEN [d2 EXCEPT !.completionPercentage =
                  Round(completedRequirements(d2), Len(d2.requirements))]
        ELSE d2

\* milestoneSchema.methods.start
Milestone_start(d, startedBy, today) ==
    MilestonePreSave(
        [d EXCEPT !.status = "in_progress",
                  !.updates = Append(@, [message |-> "Milestone started",
                                         updatedBy |-> startedBy])],
        today)

\* milestoneSchema.methods.complete
Milestone_complete(d, completedBy, today) ==
    MilestonePreSave(
        [d EXCEPT !.status = "completed",
                  !.completionPercentage = 100,
                  !.updates = Append(@, [message |-> "Milestone completed",
                                         updatedBy |-> completedBy])],
        today)

\* milestoneSchema.methods.verify
Milestone_verify(d, verifiedBy, today) ==
    MilestonePreSave(
        [d EXCEPT !.isVerified = TRUE,
                  !.verifiedBy = verifiedBy,
                  !.verificationDate = today,
                  !.updates = Append(@, [message |-> "Milestone verified",
                                         updatedBy |-> verifiedBy])],
        today)

\* milestoneSchema.methods.approve
Milestone_approve(d, approvedBy, today) ==
    MilestonePreSave(
        [d EXCEPT !.isApproved = TRUE,
                  !.approvedBy = approvedBy,
                  !.approvalDate = today,
                  !.updates = Append(@, [message |-> "Milestone approved",
                                         updatedBy |-> approvedBy])],
        today)

\* milestoneSchema.methods.releaseSubsidy
Milestone_releaseSubsidy(d, txHash, today) ==
    MilestonePreSave(
        [d EXCEPT !.released = TRUE, !.releaseTxHash = txHash],
        today)

----------------------------------------------------------------------------
(* Requests: the outcome of a handler is the response code, the store as   *)
(* the handler leaves it and the documents it saved.                       *)

Out(code, ms, pr, au, savedM, savedP) ==
    [ code |-> code, milestones |-> ms, project |-> pr, audits |-> au,
      savedM |-> savedM, savedP |-> savedP ]

\* An error thrown before anything was written
Fail(code) == Out(code, milestones, project, audits, {}, FALSE)

\* authorize(...roles)
authorize(u, roles) == role(u) \in roles

\* requireKYC(status = 'approved')
requireKYC(u) == kyc[u] = "approved"

\* errorHandler, and the response: a 401 or 403 writes an access_denied
\* security event (its actor is the requester, who is kept in resp only)
Respond(op, u, m, o) ==
    LET au == IF o.code \in {401, 403}
              THEN logSecurityEvent(o.audits, "access_denied", "requester", "medium").log
              ELSE o.audits
    IN  /\ Len(au) <= MaxAudits
        /\ \A i \in DOMAIN o.milestones :
              Len(o.milestones[i].updates) <= MaxUpdates
        /\ milestones' = o.milestones
        /\ project' = o.project
        /\ audits' = au
        /\ resp' = [ op |-> op, actor |-> u, m |-> m, code |-> o.code,
                     savedM |-> o.savedM, savedP |-> o.savedP, notified |-> {} ]
        /\ UNCHANGED <<kyc, now, oracle, inflight>>

----------------------------------------------------------------------------

(* Milestone controller *)

\* validateMilestoneUpdate with the released flag among the accepted keys
validateMilestoneUpdateWithReleased(body) ==
    /\ DOMAIN body \subseteq
          { "completionPercentage", "status", "actualStartDate", "actualEndDate",
            "requirements", "deliverables", "technicalSpecs", "released" }
    /\ "completionPercentage" \in DOMAIN body =>
          body.completionPercentage \in 0..100
    /\ "status" \in DOMAIN body => body.status \in Statuses

\* validateMilestoneUpdate: the Joi schema of PUT /milestones/:id rejects a
\* body with a key it does not list
validateMilestoneUpdate(body) ==
    /\ DOMAIN body \subseteq
          { "completionPercentage", "status", "actualStartDate", "actualEndDate",
            "requirements", "deliverables", "technicalSpecs" }
    /\ "completionPercentage" \in DOMAIN body =>
          body.completionPercentage \in 0..100
    /\ "status" \in DOMAIN body => body.status \in Statuses

\* Model.findByIdAndUpdate(id, body): the body's fields replace the stored ones
ApplyUpdate(d, body) ==
    [k \in DOMAIN d |-> IF k \in DOMAIN body THEN body[k] ELSE d[k]]

\* createMilestone
createMilestoneHandler(u, amount, nreq, due) ==
    IF ~(role(u) = "government" \/ (role(u) = "producer" /\ project.producer = u))
    THEN Fail(403)
    ELSE
      LET d  == MilestonePreSave(NewMilestone(amount, nreq, due), now)
          ms == Append(milestones, d)
          m  == Len(ms)
          ps == addMilestone(project)
      IN  IF ~ps.ok
          THEN Out(400, ms, project, audits, {m}, FALSE)
          ELSE
            LET a == logUserAction(audits, u, "create", "milestone", "m", "data_modification")
            IN  IF a.ok
                THEN Out(201, ms, ps.doc, a.log, {m}, TRUE)
                ELSE Out(400, ms, ps.doc, audits, {m}, TRUE)

\* updateMilestone
updateMilestoneHandler(u, m, body) ==
    IF m \notin DOMAIN milestones THEN Fail(404)
    ELSE IF ~( \/ role(u) = "government"
               \/ (role(u) = "producer" /\ project.producer = u)
               \/ (role(u) = "auditor" /\ project.auditor = u) )
    THEN Fail(403)
    ELSE
      LET ms == [milestones EXCEPT ![m] = ApplyUpdate(@, body)]
          a  == logUserAction(audits, u, "update", "milestone", "m", "data_modification")
      IN  IF a.ok
          THEN Out(200, ms, project, a.log, {}, FALSE)
          ELSE Out(400, ms, project, audits, {}, FALSE)

\* startMilestone: the checks before the transition (0: all passed)
startChecks(u, m) ==
    IF role(u) # "producer" \/ project.producer # u THEN 403
    ELSE IF milestones[m].status # "pending" THEN 400
    ELSE 0

\* startMilestone
startMilestoneHandler(u, m) ==
    IF m \notin DOMAIN milestones THEN Fail(404)
    ELSE IF startChecks(u, m) # 0 THEN Fail(startChecks(u, m))
    ELSE
      LET ms == [milestones EXCEPT ![m] = Milestone_start(@, u, now)]
          a  == logUserAction(audits, u, "update", "milestone", "m", "data_modification")
      IN  IF a.ok
          THEN Out(200, ms, project, a.log, {m}, FALSE)
          ELSE Out(400, ms, project, audits, {m}, FALSE)

\* completeMilestone: the checks before the transition
completeChecks(u, m) ==
    IF role(u) # "producer" \/ project.producer # u THEN 403
    ELSE IF milestones[m].status = "completed" THEN 400
    ELSE 0

\* completeMilestone
completeMilestoneHandler(u, m) ==
    IF m \notin DOMAIN milestones THEN Fail(404)
    ELSE IF completeChecks(u, m) # 0 THEN Fail(completeChecks(u, m))
    ELSE
      LET ms == [milestones EXCEPT ![m] = Milestone_complete(@, u, now)]
          ps == Project_completeMilestone(project, 0)
      IN  IF ~ps.ok
          THEN Out(400, ms, project, audits, {m}, FALSE)
          ELSE
            LET a == logUserAction(audits, u, "update", "milestone", "m", "data_modification")
            IN  IF a.ok
                THEN Out(200, ms, ps.doc, a.log, {m}, TRUE)
                ELSE Out(400, ms, ps.doc, audits, {m}, TRUE)

\* verifyMilestone with the status check left out
verifyChecksNoStatus(u, m) ==
    IF role(u) # "auditor" \/ project.auditor # u THEN 403
    ELSE IF milestones[m].isVerified THEN 400
    ELSE 0

\* verifyMilestone with the check of the assigned auditor left out
verifyChecksAnyAuditor(u, m) ==
    IF role(u) # "auditor" THEN 403
    ELSE IF milestones[m].status # "completed" THEN 400
    ELSE IF milestones[m].isVerified THEN 400
    ELSE 0

\* verifyMilestone with the already-verified check left out
verifyChecksNoOnce(u, m) ==
    IF role(u) # "auditor" \/ project.auditor # u THEN 403
    ELSE IF milestones[m].status # "completed" THEN 400
    ELSE 0

\* verifyMilestone: the checks before the transition
verifyChecks(u, m) ==
    IF role(u) # "auditor" \/ project.auditor # u THEN 403
    ELSE IF milestones[m].status # "completed" THEN 400
    ELSE IF milestones[m].isVerified THEN 400
    ELSE 0

\* verifyMilestone
verifyMilestoneHandler(u, m) ==
    IF m \notin DOMAIN milestones THEN Fail(404)
    ELSE IF verifyChecks(u, m) # 0 THEN Fail(verifyChecks(u, m))
    ELSE
      LET ms == [milestones EXCEPT ![m] = Milestone_verify(@, u, now)]
          a  == logUserAction(audits, u, "verify", "milestone", "m", "data_modification")
      IN  IF a.ok
          THEN Out(200, ms, project, a.log, {m}, FALSE)
          ELSE Out(400, ms, project, audits, {m}, FALSE)

\* approveMilestone with the verified check left out
approveChecksNoVerified(u, m) ==
    IF role(u) # "government" THEN 403
    ELSE IF milestones[m].isApproved THEN 400
    ELSE 0

\* approveMilestone: the checks before the transition
approveChecks(u, m) ==
    IF role(u) # "government" THEN 403
    ELSE IF ~milestones[m].isVerified THEN 400
    ELSE IF milestones[m].isApproved THEN 400
    ELSE 0

\* approveMilestone
approveMilestoneHandler(u, m) ==
    IF m \notin DOMAIN milestones THEN Fail(404)
    ELSE IF approveChecks(u, m) # 0 THEN Fail(approveChecks(u, m))
    ELSE
      LET ms == [milestones EXCEPT ![m] = Milestone_approve(@, u, now)]
          a  == logUserAction(audits, u, "approve", "milestone", "m", "data_modification")
      IN  IF a.ok
          THEN Out(200, ms, project, a.log, {m}, FALSE)
          ELSE Out(400, ms, project, audits, {m}, FALSE)

\* releaseSubsidy: the checks before the transition
releaseChecks(u, m) ==
    IF role(u) # "government" THEN 403
    ELSE IF ~milestones[m].isApproved THEN 400
    ELSE IF milestones[m].released THEN 400
    ELSE 0

\* releaseSubsidy
releaseSubsidyHandler(u, m, txHash) ==
    IF m \notin DOMAIN milestones THEN Fail(404)
    ELSE IF releaseChecks(u, m) # 0 THEN Fail(releaseChecks(u, m))
    ELSE
      LET ms == [milestones EXCEPT ![m] = Milestone_releaseSubsidy(@, txHash, now)]
          ps == Project_completeMilestone(project, milestones[m].subsidyAmount)
      IN  IF ~ps.ok
          THEN Out(400, ms, project, audits, {m}, FALSE)
          ELSE
            LET a == logBlockchainTransaction(audits, txHash, u)
            IN  IF a.ok
                THEN Out(200, ms, ps.doc, a.log, {m}, TRUE)
                ELSE Out(400, ms, ps.doc, audits, {m}, TRUE)

----------------------------------------------------------------------------
(* Project controller *)

\* The schema's validators on the paths an update writes (runValidators)
ProjectBodyValid(body) ==
    /\ "released" \in DOMAIN body => body.released >= 0
    /\ "milestoneCount" \in DOMAIN body => body.milestoneCount >= 0
    /\ "completedMilestones" \in DOMAIN body => body.completedMilestones >= 0
    /\ "progressPercentage" \in DOMAIN body => body.progressPercentage \in 0..100
    /\ "approvalStatus" \in DOMAIN body =>
          body.approvalStatus \in {"pending", "approved", "rejected"}
    /\ "status" \in DOMAIN body =>
          body.status \in {"draft", "pending", "active", "completed", "suspended",
                           "cancelled"}

\* updateProject: the body is not validated by the route
updateProjectHandler(u, body) ==
    IF ~(role(u) = "government" \/ (role(u) = "producer" /\ project.producer = u))
    THEN Fail(403)
    ELSE IF ~ProjectBodyValid(body)
    THEN Fail(400)
    ELSE
      LET pr == ApplyUpdate(project, body)
          a  == logUserAction(audits, u, "update", "project", "p", "data_modification")
      IN  IF a.ok
          THEN Out(200, milestones, pr, a.log, {}, FALSE)
          ELSE Out(400, milestones, pr, audits, {}, FALSE)

\* approveProject
approveProjectHandler(u) ==
    IF role(u) # "government" THEN Fail(403)
    ELSE IF project.approvalStatus = "approved" THEN Fail(400)
    ELSE
      LET ps == ProjectSave([project EXCEPT !.approvalStatus = "approved",
                                            !.status = "active"])
          a  == logUserAction(audits, u, "approve", "project", "p", "data_modification")
      IN  IF ~ps.ok THEN Fail(400)
          ELSE IF a.ok
          THEN Out(200, milestones, ps.doc, a.log, {}, TRUE)
          ELSE Out(400, milestones, ps.doc, audits, {}, TRUE)

\* rejectProject
rejectProjectHandler(u) ==
    IF role(u) # "government" THEN Fail(403)
    ELSE
      LET ps == ProjectSave([project EXCEPT !.approvalStatus = "rejected",
                                            !.status = "cancelled"])
          a  == logUserAction(audits, u, "reject", "project", "p", "data_modification")
      IN  IF ~ps.ok THEN Fail(400)
          ELSE IF a.ok
          THEN Out(200, milestones, ps.doc, a.log, {}, TRUE)
          ELSE Out(400, milestones, ps.doc, audits, {}, TRUE)

\* assignAuditor
assignAuditorHandler(u, auditorId) ==
    IF role(u) # "government" THEN Fail(403)
    ELSE IF role(auditorId) # "auditor" THEN Fail(400)
    ELSE
      LET ps == ProjectSave([project EXCEPT !.auditor = auditorId])
      IN  IF ~ps.ok
          THEN Fail(400)
          ELSE
            LET a == logUserAction(audits, u, "update", "project", "p", "data_modification")
            IN  IF a.ok
                THEN Out(200, milestones, ps.doc, a.log, {}, TRUE)
                ELSE Out(400, milestones, ps.doc, audits, {}, TRUE)

----------------------------------------------------------------------------
(* Audit controller *)

\* flagAuditLog: the checks before the write
flagChecks(u, id) ==
    IF role(u) \notin {"government", "auditor"} THEN 403
    ELSE IF id \notin DOMAIN audits THEN 404
    ELSE IF audits[id].flagged THEN 400
    ELSE 0

\* flagAuditLog: the record is flagged, then the admin_action entry about it
\* is created with resource type 'audit'
flagAuditLogHandler(u, id) ==
    IF flagChecks(u, id) # 0 THEN Fail(flagChecks(u, id))
    ELSE
      LET log == [audits EXCEPT ![id] = flagForReview(@, u)]
          a   == createAuditLog(log,
                     AuditDoc("admin_action", u, "audit", "Audit Log",
                              "update", "data_modification", "medium"))
      IN  IF a.ok
          THEN Out(200, milestones, project, a.log, {}, FALSE)
          ELSE Out(400, milestones, project, log, {}, FALSE)

\* reviewAuditLog with the already-reviewed check left out
reviewChecksNoGuard(u, id) ==
    IF role(u) \notin {"government", "auditor"} THEN 403
    ELSE IF id \notin DOMAIN audits THEN 404
    ELSE 0

\* reviewAuditLog: the checks before the write
reviewChecks(u, id) ==
    IF role(u) \notin {"government", "auditor"} THEN 403
    ELSE IF id \notin DOMAIN audits THEN 404
    ELSE IF audits[id].reviewed THEN 400
    ELSE 0

\* reviewAuditLog: the record is marked, then the admin_action entry about
\* it is created with resource type 'audit'
reviewAuditLogHandler(u, id) ==
    IF reviewChecks(u, id) # 0 THEN Fail(reviewChecks(u, id))
    ELSE
      LET log == [audits EXCEPT ![id] = markAsReviewed(@, u, now)]
          a   == createAuditLog(log,
                     AuditDoc("admin_action", u, "audit", "Audit Log",
                              "update", "data_modification", "low"))
      IN  IF a.ok
          THEN Out(200, milestones, project, a.log, {}, FALSE)
          ELSE Out(400, milestones, project, log, {}, FALSE)

----------------------------------------------------------------------------
(* Routes: the middleware chain in front of each handler *)

\* POST /projects/:projectId/milestones
createMilestone(u, amount, nreq, due) ==
    LET o == IF ~authorize(u, {"government", "producer"}) THEN Fail(403)
             ELSE IF ~requireKYC(u) THEN Fail(403)
             ELSE createMilestoneHandler(u, amount, nreq, due)
    IN  /\ Len(o.milestones) <= MaxMilestones
        /\ Respond("create", u, Len(o.milestones), o)

\* PUT /milestones/:id
updateMilestone(u, m, body) ==
    LET o == IF ~authorize(u, {"government", "producer", "auditor"}) THEN Fail(403)
             ELSE IF ~validateMilestoneUpdate(body) THEN Fail(400)
             ELSE updateMilestoneHandler(u, m, body)
    IN  /\ m \in MilestoneIds
        /\ Respond("update", u, m, o)

\* POST /milestones/:id/start
startMilestone(u, m) ==
    LET o == IF ~authorize(u, {"producer"}) THEN Fail(403)
             ELSE startMilestoneHandler(u, m)
    IN  /\ m \in MilestoneIds
        /\ Respond("start", u, m, o)

\* POST /milestones/:id/complete
completeMilestone(u, m) ==
    LET o == IF ~authorize(u, {"producer"}) THEN Fail(403)
             ELSE completeMilestoneHandler(u, m)
    IN  /\ m \in MilestoneIds
        /\ Respond("complete", u, m, o)

\* POST /milestones/:id/verify
verifyMilestone(u, m) ==
    LET o == IF ~authorize(u, {"auditor"}) THEN Fail(403)
             ELSE verifyMilestoneHandler(u, m)
    IN  /\ m \in MilestoneIds
        /\ Respond("verify", u, m, o)

\* POST /milestones/:id/approve
approveMilestone(u, m) ==
    LET o == IF ~authorize(u, {"government"}) THEN Fail(403)
             ELSE approveMilestoneHandler(u, m)
    IN  /\ m \in MilestoneIds
        /\ Respond("approve", u, m, o)

\* POST /milestones/:id/release-subsidy
releaseSubsidy(u, m, txHash) ==
    LET o == IF ~authorize(u, {"government"}) THEN Fail(403)
             ELSE releaseSubsidyHandler(u, m, txHash)
    IN  /\ m \in MilestoneIds
        /\ Respond("release", u, m, o)

\* PUT /projects/:id
updateProject(u, body) ==
    LET o == IF ~authorize(u, {"government", "producer"}) THEN Fail(403)
             ELSE updateProjectHandler(u, body)
    IN  /\ u \in Users
        /\ Respond("updateProject", u, 0, o)

\* POST /projects/:id/assign-auditor
assignAuditor(u, auditorId) ==
    LET o == IF ~authorize(u, {"government"}) THEN Fail(403)
             ELSE assignAuditorHandler(u, auditorId)
    IN  /\ u \in Users
        /\ Respond("assignAuditor", u, 0, o)

\* POST /projects/:id/approve
approveProject(u) ==
    LET o == IF ~authorize(u, {"government"}) THEN Fail(403)
             ELSE approveProjectHandler(u)
    IN  /\ u \in Users
        /\ Respond("approveProject", u, 0, o)

\* POST /projects/:id/reject
rejectProject(u) ==
    LET o == IF ~authorize(u, {"government"}) THEN Fail(403)
             ELSE rejectProjectHandler(u)
    IN  /\ u \in Users
        /\ Respond("rejectProject", u, 0, o)

\* POST /api/audit/:id/flag
flagAuditLog(u, id) ==
    LET o == IF ~authorize(u, {"government", "auditor"}) THEN Fail(403)
             ELSE flagAuditLogHandler(u, id)
    IN  /\ u \in Users
        /\ Respond("flag", u, id, o)

\* POST /api/audit/:id/review
reviewAuditLog(u, id) ==
    LET o == IF ~authorize(u, {"government", "auditor"}) THEN Fail(403)
             ELSE reviewAuditLogHandler(u, id)
    IN  /\ u \in Users
        /\ Respond("review", u, id, o)

----------------------------------------------------------------------------
(* Notification scheduler *)

\* checkOverdueMilestones: every selected milestone is set overdue and saved,
\* and an overdue notice is sent to the producer of its project
checkOverdueMilestones ==
    LET sel == { m \in DOMAIN milestones :
                    /\ milestones[m].plannedEndDate < now
                    /\ milestones[m].status \in {"pending", "in_progress"} }
    IN  /\ milestones' =
              [ m \in DOMAIN milestones |->
                  IF m \in sel
                  THEN MilestonePreSave([milestones[m] EXCEPT !.status = "overdue"], now)
                  ELSE milestones[m] ]
        /\ resp' = [ op |-> "sweep", actor |-> "system", m |-> 0, code |-> 0,
                     savedM |-> sel, savedP |-> FALSE,
                     notified |-> IF project.producer # "none" THEN sel ELSE {} ]
        /\ UNCHANGED <<kyc, project, audits, now, oracle, inflight>>

----------------------------------------------------------------------------
(* Requests interleaved at their awaits.  A handler runs without           *)
(* interruption from one await to the next; between two awaits other        *)
(* requests and the scheduler run.  inflight holds the requests that have   *)
(* read their documents, with the documents as read (base, proj) and as     *)
(* changed in memory (doc), and the requests that were answered (pc done).  *)

MaxRequests == 2

RaceUsers == {"g1", "p1"}

\* save() under optimistic concurrency: the write is refused when the stored
\* document is no longer the one that was read
SaveIfUnchanged(stored, base, doc) ==
    IF stored = base
    THEN [ok |-> TRUE, doc |-> doc]
    ELSE [ok |-> FALSE, doc |-> stored]

\* document.save() of a loaded document: an update by _id that sets the paths
\* changed since the read and pushes the array elements added since the read
SaveModified(stored, base, doc) ==
    [ ok  |-> TRUE,
      doc |-> [ k \in DOMAIN stored |->
                  IF k = "updates"
                  THEN stored[k] \o SubSeq(doc[k], Len(base[k]) + 1, Len(doc[k]))
                  ELSE IF doc[k] # base[k] THEN doc[k] ELSE stored[k] ] ]

Req(rid, op, u, m, pc, base, doc, proj) ==
    [ rid |-> rid, op |-> op, actor |-> u, m |-> m, pc |-> pc,
      base |-> base, doc |-> doc, proj |-> proj, code |-> 0 ]

\* The request r moves on to its next await
Goto(r, pc) ==
    inflight' = (inflight \ {r}) \cup {[r EXCEPT !.pc = pc]}

\* The request r is answered (errorHandler logs a 401 or 403)
Answer(r, code, au, savedM, notified) ==
    /\ inflight' = (inflight \ {r}) \cup {[r EXCEPT !.pc = "done", !.code = code]}
    /\ audits' = IF code \in {401, 403}
                 THEN logSecurityEvent(au, "access_denied", "requester", "medium").log
                 ELSE au
    /\ resp' = [ op |-> r.op, actor |-> r.actor, m |-> r.m, code |-> code,
                 savedM |-> savedM, savedP |-> FALSE, notified |-> notified ]

\* A request arrives: its middleware, its reads and its checks
Arrive(r, code) ==
    /\ Cardinality(inflight) < MaxRequests
    /\ IF code # 0
       THEN Answer([r EXCEPT !.doc = r.base], code, audits, {}, {})
       ELSE inflight' = inflight \cup {r} /\ UNCHANGED <<audits, resp>>
    /\ UNCHANGED <<kyc, project, milestones, now, oracle>>

\* The await of milestone.save() in a handler
SaveMilestone(r, op, pc) ==
    LET s == SaveModified(milestones[r.m], r.base, r.doc)
    IN  /\ r.op = op /\ r.pc = "saveMilestone"
        /\ milestones' = [milestones EXCEPT ![r.m] = s.doc]
        /\ IF s.ok
           THEN Goto(r, pc) /\ UNCHANGED <<audits, resp>>
           ELSE Answer(r, 500, audits, {}, {})
        /\ UNCHANGED <<kyc, project, now, oracle>>

\* releaseSubsidy up to milestone.releaseSubsidy(txHash)
releaseRead(u, m, txHash) ==
    /\ m \in MilestoneIds
    /\ Arrive(Req(Cardinality(inflight) + 1, "release", u, m, "saveMilestone",
                  milestones[m],
                  Milestone_releaseSubsidy(milestones[m], txHash, now), project),
              IF ~authorize(u, {"government"}) THEN 403 ELSE releaseChecks(u, m))

releaseSaveMilestone(r) ==
    /\ r \in inflight
    /\ SaveMilestone(r, "release", "readProject")

\* releaseSubsidy: Project.findById
releaseReadProject(r) ==
    /\ r \in inflight /\ r.op = "release" /\ r.pc = "readProject"
    /\ inflight' = (inflight \ {r})
                      \cup {[r EXCEPT !.pc = "saveProject", !.proj = project]}
    /\ UNCHANGED <<kyc, project, milestones, audits, now, resp, oracle>>

\* releaseSubsidy: project.completeMilestone(amount), the log and the answer
releaseSaveProject(r) ==
    LET ps == Project_completeMilestone(r.proj, r.doc.subsidyAmount)
        s  == SaveModified(project, r.proj, ps.doc)
        a  == logBlockchainTransaction(audits, r.doc.releaseTxHash, r.actor)
    IN  /\ r \in inflight /\ r.op = "release" /\ r.pc = "saveProject"
        /\ IF ~ps.ok
           THEN Answer(r, 400, audits, {r.m}, {}) /\ UNCHANGED project
           ELSE IF ~s.ok
           THEN Answer(r, 500, audits, {r.m}, {}) /\ UNCHANGED project
           ELSE /\ project' = s.doc
                /\ Answer(r, IF a.ok THEN 200 ELSE 400, a.log, {r.m}, {})
        /\ UNCHANGED <<kyc, milestones, now, oracle>>

\* approveMilestone up to milestone.approve(req.user.id)
approveRead(u, m) ==
    /\ m \in MilestoneIds
    /\ Arrive(Req(Cardinality(inflight) + 1, "approve", u, m, "saveMilestone",
                  milestones[m], Milestone_approve(milestones[m], u, now), project),
              IF ~authorize(u, {"government"}) THEN 403 ELSE approveChecks(u, m))

\* approveMilestone: the save, the log and the answer
approveSave(r) ==
    LET s == SaveModified(milestones[r.m], r.base, r.doc)
        a == logUserAction(audits, r.actor, "approve", "milestone", "m",
                           "data_modification")
    IN  /\ r \in inflight /\ r.op = "approve" /\ r.pc = "saveMilestone"
        /\ milestones' = [milestones EXCEPT ![r.m] = s.doc]
        /\ Answer(r, IF ~s.ok THEN 500 ELSE IF a.ok THEN 200 ELSE 400,
                  IF s.ok THEN a.log ELSE audits, {r.m}, {})
        /\ UNCHANGED <<kyc, project, now, oracle>>

\* completeMilestone up to milestone.complete(req.user.id)
completeRead(u, m) ==
    /\ m \in MilestoneIds
    /\ Arrive(Req(Cardinality(inflight) + 1, "complete", u, m, "saveMilestone",
                  milestones[m], Milestone_complete(milestones[m], u, now), project),
              IF ~authorize(u, {"producer"}) THEN 403 ELSE completeChecks(u, m))

completeSaveMilestone(r) ==
    /\ r \in inflight
    /\ SaveMilestone(r, "complete", "saveProject")

\* completeMilestone: project.completeMilestone(), the log and the answer
completeSaveProject(r) ==
    LET ps == Project_completeMilestone(r.proj, 0)
        s  == SaveModified(project, r.proj, ps.doc)
        a  == logUserAction(audits, r.actor, "update", "milestone", "m",
                            "data_modification")
    IN  /\ r \in inflight /\ r.op = "complete" /\ r.pc = "saveProject"
        /\ IF ~ps.ok
           THEN Answer(r, 400, audits, {r.m}, {}) /\ UNCHANGED project
           ELSE IF ~s.ok
           THEN Answer(r, 500, audits, {r.m}, {}) /\ UNCHANGED project
           ELSE /\ project' = s.doc
                /\ Answer(r, IF a.ok THEN 200 ELSE 400, a.log, {r.m}, {})
        /\ UNCHANGED <<kyc, milestones, now, oracle>>

\* checkOverdueMilestones up to milestone.save(): the query, and the status
\* assignment on the milestone found
sweepRead(m) ==
    /\ m \in MilestoneIds
    /\ milestones[m].plannedEndDate < now
    /\ milestones[m].status \in {"pending", "in_progress"}
    /\ Arrive(Req(Cardinality(inflight) + 1, "sweep", "system", m, "saveMilestone",
                  milestones[m],
                  MilestonePreSave([milestones[m] EXCEPT !.status = "overdue"], now),
                  project),
              0)

\* checkOverdueMilestones: the save and the notice to the producer
sweepSave(r) ==
    LET s == SaveModified(milestones[r.m], r.base, r.doc)
    IN  /\ r \in inflight /\ r.op = "sweep" /\ r.pc = "saveMilestone"
        /\ milestones' = [milestones EXCEPT ![r.m] = s.doc]
        /\ Answer(r, 0, audits, {r.m},
                  IF s.ok /\ r.proj.producer # "none" THEN {r.m} ELSE {})
        /\ UNCHANGED <<kyc, project, now, oracle>>

----------------------------------------------------------------------------
(* Oracle service: oracleService.js.  Weights are in tenths, the            *)
(* verification score and its threshold in hundredths.                     *)

\* this.dataProviders, in insertion order
Providers == <<"weather", "energy", "certification">>

ProviderIds == {Providers[i] : i \in DOMAIN Providers}

\* provider.weight
weight(p) ==
    CASE p = "weather" -> 3
      [] p = "energy" -> 4
      [] p = "certification" -> 3

\* this.verificationThreshold
verificationThreshold == 75

\* What a provider's endpoint does when it is asked
ProviderOutcomes == {"data", "http_error", "network_error", "unconfigured"}

\* fetchFromProvider for a configured provider: fetchWeatherData,
\* fetchEnergyData and fetchCertificationData return null without an
\* endpoint, catch a network error and a non-success response themselves
\* and return null, so that none of them throws
fetchFromProvider(p, outcome) ==
    [ threw |-> FALSE, hasData |-> (outcome = "data") ]

\* fetchMilestoneData: the loop over the providers, building results
RECURSIVE fetchResults(_, _)
fetchResults(responses, n) ==
    IF n = 0 THEN <<>>
    ELSE
      LET p    == Providers[n]
          got  == fetchFromProvider(p, responses[p])
          rest == fetchResults(responses, n - 1)
      IN  IF got.threw
          THEN Append(rest, [ providerId |-> p, weight |-> weight(p),
                              verified |-> FALSE, hasData |-> FALSE ])
          ELSE IF got.hasData
          THEN Append(rest, [ providerId |-> p, weight |-> weight(p),
                              verified |-> TRUE, hasData |-> TRUE ])
          ELSE rest

\* results.reduce((sum, r) => sum + r.weight, 0)
RECURSIVE SumWeights(_)
SumWeights(results) ==
    IF results = <<>> THEN 0
    ELSE Head(results).weight + SumWeights(Tail(results))

\* getTotalPossibleWeight
getTotalPossibleWeight ==
    SumWeights([i \in DOMAIN Providers |-> [weight |-> weight(Providers[i])]])

IsValidResult(r) == r.verified /\ r.hasData

\* aggregateOracleData scoring the number of responders, not their weights
aggregateOracleDataByCount(results) ==
    LET validResults == SelectSeq(results, IsValidResult)
    IN  IF Len(validResults) = 0
        THEN [ verificationScore |-> 0, consensus |-> FALSE, sources |-> results ]
        ELSE
          LET verificationScore == (100 * Len(validResults)) \div Len(Providers)
          IN  [ verificationScore |-> verificationScore,
                consensus |-> (verificationScore >= verificationThreshold),
                sources |-> results ]

\* aggregateOracleData
aggregateOracleData(results) ==
    LET validResults == SelectSeq(results, IsValidResult)
    IN  IF Len(validResults) = 0
        THEN [ verificationScore |-> 0, consensus |-> FALSE, sources |-> results ]
        ELSE
          LET totalWeight == SumWeights(validResults)
              verificationScore == (100 * totalWeight) \div getTotalPossibleWeight
          IN  [ verificationScore |-> verificationScore,
                consensus |-> (verificationScore >= verificationThreshold),
                sources |-> results ]

\* fetchMilestoneData(milestone, project).  generateVerificationHash calls
\* require('crypto') in a module that uses import: whether require is
\* defined depends on how the service is built, so the hash either is
\* computed (hashOk) or throws before anything is stored.
fetchMilestoneData(m, responses, hashOk) ==
    LET results == fetchResults(responses, Len(Providers))
        agg     == aggregateOracleData(results)
        a       == createAuditLog(audits,
                       AuditDoc("oracle_data_update", "system", "milestone", "m",
                                "update", "system", "low"))
        stored  == hashOk /\ a.ok
    IN  /\ m \in DOMAIN milestones
        /\ hashOk => Len(a.log) <= MaxAudits
        /\ oracle' = [ ran |-> TRUE, responses |-> responses,
                       sources |-> agg.sources,
                       verificationScore |-> agg.verificationScore,
                       consensus |-> agg.consensus, returned |-> stored ]
        /\ milestones' = IF hashOk
                         THEN [milestones EXCEPT ![m] = MilestonePreSave(@, now)]
                         ELSE milestones
        /\ audits' = IF hashOk THEN a.log ELSE audits
        /\ resp' = [ op |-> "oracle", actor |-> "system", m |-> m,
                     code |-> 0, savedM |-> IF hashOk THEN {m} ELSE {},
                     savedP |-> FALSE, notified |-> {} ]
        /\ UNCHANGED <<kyc, project, now, inflight>>

\* Central error handling.  An error is what a handler or a middleware
\* threw: its name, its code ("none": no code) and its own statusCode
\* (0: undefined).  Two error handlers exist in the repository:
\* middleware/errorHandler.js, which the middleware index exports, and
\* middlewares/error.middleware.js.
ErrorsThrown ==
    { [name |-> "ErrorResponse", code |-> "none", statusCode |-> c] :
          c \in {400, 403, 404, 500} }
      \cup { [name |-> n, code |-> "none", statusCode |-> 0] :
               n \in {"CastError", "ValidationError", "JsonWebTokenError",
                      "TokenExpiredError", "MongooseServerSelectionError",
                      "Error"} }
      \cup { [name |-> "MongoServerError", code |-> "11000", statusCode |-> 0],
             [name |-> "Error", code |-> "ECONNREFUSED", statusCode |-> 0] }

\* errorHandler (middleware/errorHandler.js): error.statusCode after the
\* chain of tests, each test replacing the result of the earlier ones
errorHandlerStatus(err) ==
    LET s1 == IF err.name = "CastError" THEN 404 ELSE err.statusCode
        s2 == IF err.code = "11000" THEN 400 ELSE s1
        s3 == IF err.name = "ValidationError" THEN 400 ELSE s2
        s4 == IF err.name \in {"JsonWebTokenError", "TokenExpiredError"}
              THEN 401 ELSE s3
        s5 == IF err.name = "MongooseServerSelectionError" THEN 500 ELSE s4
    IN  IF err.code \in {"ENOTFOUND", "ECONNREFUSED"} THEN 503 ELSE s5

\* errorHandler (middleware/errorHandler.js): the audit records and the
\* status of the response, error.statusCode || 500
errorHandler(err, u, log) ==
    LET sc == errorHandlerStatus(err)
        a1 == IF sc >= 500
              THEN createAuditLog(log,
                       AuditDoc("system_error", "requester", "system",
                                "Error Handler", "create", "error", "high")).log
              ELSE log
        a2 == IF sc \in {401, 403}
              THEN logSecurityEvent(a1, "access_denied", "requester", "medium").log
              ELSE a1
    IN  [ code |-> IF sc = 0 THEN 500 ELSE sc, audits |-> a2 ]

\* errorHandler (middlewares/error.middleware.js)
errorMiddleware(err, u, log) ==
    LET s1 == IF err.name = "CastError" THEN 404 ELSE err.statusCode
        s2 == IF err.code = "11000" THEN 400 ELSE s1
        s3 == IF err.name = "ValidationError" THEN 400 ELSE s2
        s4 == IF err.name \in {"JsonWebTokenError", "TokenExpiredError"}
              THEN 401 ELSE s3
        s5 == IF err.name \in {"MongoError", "MongooseError"} THEN 500 ELSE s4
        sc == IF err.code = "ECONNREFUSED" THEN 503
              ELSE IF err.code = "ETIMEDOUT" THEN 408 ELSE s5
        a  == IF u # "none"
              THEN createAuditLog(log,
                       AuditDoc("system_error", "requester", "system",
                                "API Error", "read", "error", "high")).log
              ELSE log
    IN  [ code |-> IF sc = 0 THEN 500 ELSE sc, audits |-> a ]

\* An error reaches the error handler that is mounted; inflight keeps the
\* error and the handler that answered it
handleError(mounted, err, u) ==
    LET o == IF mounted = "errorHandler.js"
             THEN errorHandler(err, u, audits)
             ELSE errorMiddleware(err, u, audits)
    IN  /\ Len(o.audits) <= MaxAudits
        /\ audits' = o.audits
        /\ inflight' = {[err |-> err, mounted |-> mounted]}
        /\ resp' = [ op |-> "error", actor |-> u, m |-> 0, code |-> o.code,
                     savedM |-> {}, savedP |-> FALSE, notified |-> {} ]
        /\ UNCHANGED <<kyc, project, milestones, now, oracle>>

\* Rate limiting of the authentication routes.  One limiter, as created by
\* authRateLimit(windowMs, maxAttempts) for one route; its Map of attempts is
\* kept in oracle.attempts (count 0: no entry for the key), the clock is now,
\* and inflight collects the requests the limiter passed on.
windowMs == 2
maxAttempts == 2
MaxClock == 6
MaxLimited == 5
LimiterKeys == {"ip1-/login", "ip2-/login"}

NoEntry == [count |-> 0, firstAttempt |-> 0]

authRateLimitOffByOne(attempts, key, t) ==
    LET cleaned == [k \in LimiterKeys |->
                      IF attempts[k].count > 0
                         /\ t - attempts[k].firstAttempt > windowMs
                      THEN NoEntry ELSE attempts[k]]
        userAttempts == cleaned[key]
    IN  IF userAttempts.count = 0
        THEN [ pass |-> TRUE,
               attempts |-> [cleaned EXCEPT ![key] =
                               [count |-> 1, firstAttempt |-> t]] ]
        ELSE IF userAttempts.count > maxAttempts
        THEN [ pass |-> FALSE, attempts |-> cleaned ]
        ELSE [ pass |-> TRUE,
               attempts |-> [cleaned EXCEPT ![key].count = @ + 1] ]

\* The middleware returned by authRateLimit: old entries are deleted, a key
\* without entry starts a window, a key at maxAttempts is refused, any
\* other request is counted
authRateLimit(attempts, key, t) ==
    LET cleaned == [k \in LimiterKeys |->
                      IF attempts[k].count > 0
                         /\ t - attempts[k].firstAttempt > windowMs
                      THEN NoEntry ELSE attempts[k]]
        userAttempts == cleaned[key]
    IN  IF userAttempts.count = 0
        THEN [ pass |-> TRUE,
               attempts |-> [cleaned EXCEPT ![key] =
                               [count |-> 1, firstAttempt |-> t]] ]
        ELSE IF t - userAttempts.firstAttempt > windowMs
        THEN [ pass |-> TRUE,
               attempts |-> [cleaned EXCEPT ![key] =
                               [count |-> 1, firstAttempt |-> t]] ]
        ELSE IF userAttempts.count >= maxAttempts
        THEN [ pass |-> FALSE, attempts |-> cleaned ]
        ELSE [ pass |-> TRUE,
               attempts |-> [cleaned EXCEPT ![key].count = @ + 1] ]

\* A request to the limited route: refused with 429 (the rate_limit_exceeded
\* security event is no eventType of the schema, so no record is stored) or
\* passed on to the route
limitedRequest(key) ==
    LET o == authRateLimit(oracle.attempts, key, now)
    IN  /\ oracle.served < MaxLimited
        /\ oracle' = [ attempts |-> o.attempts, served |-> oracle.served + 1 ]
        /\ inflight' = IF o.pass
                       THEN inflight \cup {[key |-> key, at |-> now,
                                            n |-> oracle.served + 1]}
                       ELSE inflight
        /\ resp' = [ op |-> "limited", actor |-> key, m |-> 0,
                     code |-> IF o.pass THEN 200 ELSE 429,
                     savedM |-> {}, savedP |-> FALSE, notified |-> {} ]
        /\ UNCHANGED <<kyc, project, milestones, audits, now>>

\* Date.now() advances
Elapse ==
    /\ now < MaxClock
    /\ now' = now + 1
    /\ UNCHANGED <<kyc, project, milestones, audits, resp, oracle, inflight>>

\* Login.  The account is kept in oracle: loginAttempts and lockUntil
\* (0: unset) are the stored fields, failed counts the consecutive failed
\* password attempts made so far and logins all attempts.
LockTime == 2
MaxLogins == 6

\* user.model.js incLoginAttempts: restart at 1 after an expired lock,
\* otherwise count and lock at five.  The login controller does not call
\* it: it calls user.incrementLoginAttempts(), which the schema does not
\* define.
incLoginAttempts(user, t) ==
    IF user.lockUntil # 0 /\ user.lockUntil < t
    THEN [user EXCEPT !.loginAttempts = 1, !.lockUntil = 0]
    ELSE [user EXCEPT !.loginAttempts = @ + 1,
                      !.lockUntil = IF user.loginAttempts + 1 >= 5
                                       /\ ~(user.lockUntil # 0 /\ user.lockUntil > t)
                                    THEN t + LockTime ELSE @]

\* auth.controller.js login, for an existing active account.  The lock test
\* reads user.accountLocked, which is no path of the schema and so is
\* undefined: the test never succeeds.  A wrong password calls
\* user.incrementLoginAttempts(), a TypeError that the error handler answers
\* with 500 before anything is stored.  A right password clears the
\* counters when loginAttempts > 0, saves the user and logs user_login.
loginHandler(user, isMatch, log) ==
    IF ~isMatch
    THEN [ code |-> errorHandler([name |-> "TypeError", code |-> "none",
                                  statusCode |-> 0], "none", log).code,
           user |-> user, audits |-> log ]
    ELSE LET cleared == IF user.loginAttempts > 0
                        THEN [user EXCEPT !.loginAttempts = 0, !.lockUntil = 0]
                        ELSE user
             a == createAuditLog(log,
                      AuditDoc("user_login", "requester", "user", "user",
                               "login", "authentication", "low"))
         IN  [ code |-> IF a.ok THEN 200 ELSE 400,
               user |-> cleared, audits |-> a.log ]

login(isMatch) ==
    LET user == [loginAttempts |-> oracle.loginAttempts, lockUntil |-> oracle.lockUntil]
        o == loginHandler(user, isMatch, audits)
    IN  /\ oracle.logins < MaxLogins
        /\ oracle' = [ loginAttempts |-> o.user.loginAttempts,
                       lockUntil |-> o.user.lockUntil,
                       failed |-> IF isMatch THEN 0 ELSE oracle.failed + 1,
                       logins |-> oracle.logins + 1 ]
        /\ audits' = o.audits
        /\ resp' = [ op |-> "login", actor |-> "p1", m |-> 0, code |-> o.code,
                     savedM |-> {}, savedP |-> FALSE, notified |-> {} ]
        /\ UNCHANGED <<kyc, project, milestones, now, inflight>>

\* Verification rules: verifyMilestoneCompletion.  A reading is what a
\* provider's endpoint reports (-1: the provider gave no data): the energy
\* provider's energyProduced, the certification provider's complianceScore
\* in tenths, the weather provider's temperature.  An aggregated value v is
\* kept as the numerator of v = num / den with den the total weight of the
\* providers that answered, so that comparisons are exact.
MaxTargets == 2

Categories ==
    {"Performance Milestone", "Construction", "Testing & Commissioning",
     "Final Completion"}

Parameters == {"energy_production", "carbon_offset"}

TargetValues == {1}

Readings ==
    [ energy : {-1, 0, 2}, certification : {-1, 5, 9}, weather : {-1, 1} ]

\* The provider's response behind a reading
ResponseOf(reading) == IF reading = -1 THEN "http_error" ELSE "data"

\* aggregateOracleData: aggregatedData, the weighted averages of the weather
\* and the energy fields over the valid results (null without valid results)
aggregatedData(readings) ==
    LET valid == {p \in ProviderIds : readings[p] # -1}
        named == (IF readings.energy # -1 THEN {"energy.energyProduced"} ELSE {})
                   \cup (IF readings.weather # -1 THEN {"weather.temperature"} ELSE {})
    IN  [ isNull |-> valid = {},
          den    |-> SumWeights([i \in DOMAIN Providers |->
                        [weight |-> IF Providers[i] \in valid
                                    THEN weight(Providers[i]) ELSE 0]]),
          num    |-> [f \in named |->
                        IF f = "energy.energyProduced"
                        THEN readings.energy * weight("energy")
                        ELSE readings.weather * weight("weather")] ]

\* parameterMap of extractActualValue: the aggregated field of a parameter
parameterMap(parameter) ==
    CASE parameter = "energy_production" -> "energy.energyProduced"
      [] parameter = "carbon_offset" -> "energy.carbonOffset"
      [] parameter = "temperature" -> "weather.temperature"

\* extractActualValue: parameterMap[parameter.toLowerCase()] || null
extractActualValue(agg, parameter) ==
    IF agg.isNull \/ parameterMap(parameter) \notin DOMAIN agg.num
    THEN [isNull |-> TRUE, num |-> 0]
    ELSE IF agg.num[parameterMap(parameter)] = 0
    THEN [isNull |-> TRUE, num |-> 0]
    ELSE [isNull |-> FALSE, num |-> agg.num[parameterMap(parameter)]]

\* applyVerificationRules(milestone, oracleData): passed
applyVerificationRules(category, targets, consensus, agg) ==
    LET passed ==
          CASE category = "Performance Milestone" ->
                 \A i \in DOMAIN targets :
                    LET actualValue == extractActualValue(agg, targets[i].parameter)
                    IN  actualValue.isNull
                          \/ actualValue.num >= targets[i].targetValue * agg.den
            [] category = "Construction" -> consensus
            [] category = "Testing & Commissioning" ->
                 ~( /\ ~agg.isNull
                    /\ "certification.complianceScore" \in DOMAIN agg.num
                    /\ 10 * agg.num["certification.complianceScore"] < 8 * agg.den )
            [] OTHER -> consensus
    IN  passed /\ consensus

\* verifyMilestoneCompletion: the oracle data of the milestone is fetched and
\* the rules of its category are applied
verifyMilestoneCompletion ==
    LET results == fetchResults([p \in ProviderIds |-> ResponseOf(oracle.readings[p])],
                                Len(Providers))
        od      == aggregateOracleData(results)
        agg     == aggregatedData(oracle.readings)
    IN  /\ ~oracle.ran
        /\ oracle' = [oracle EXCEPT
                         !.ran = TRUE,
                         !.consensus = od.consensus,
                         !.verificationScore = od.verificationScore,
                         !.verified = applyVerificationRules(oracle.category,
                                          oracle.targets, od.consensus, agg)]
        /\ UNCHANGED <<kyc, project, milestones, audits, now, resp, inflight>>

\* No request handled yet
NoRequest ==
    [ op |-> "none", actor |-> "system", m |-> 0, code |-> 0,
      savedM |-> {}, savedP |-> FALSE, notified |-> {} ]

\* The oracle service before its first run
NoOracleRun ==
    [ ran |-> FALSE, responses |-> [p \in ProviderIds |-> "none"],
      sources |-> <<>>, verificationScore |-> 0, consensus |-> FALSE,
      returned |-> FALSE ]

Init ==
    /\ \E k \in KycStored : kyc = [u \in Users |-> k]
    /\ \E t \in TotalSubsidies :
          project = [ producer |-> "p1", auditor |-> "none",
                      totalSubsidy |-> t, released |-> 0,
                      status |-> "pending", approvalStatus |-> "pending",
                      milestoneCount |-> 0, completedMilestones |-> 0,
                      progressPercentage |-> 0 ]
    /\ milestones = <<>>
    /\ audits = <<>>
    /\ now = 1
    /\ resp = NoRequest
    /\ oracle = NoOracleRun
    /\ inflight = {}

\* Time passes
Tick ==
    /\ now < MaxTime
    /\ now' = now + 1
    /\ resp' = [ op |-> "tick", actor |-> "system", m |-> 0, code |-> 0,
                 savedM |-> {}, savedP |-> FALSE, notified |-> {} ]
    /\ UNCHANGED <<kyc, project, milestones, audits, oracle, inflight>>

Next ==
    \/ Tick
    \/ checkOverdueMilestones
    \/ \E u \in Users, amount \in SubsidyAmounts, nreq \in RequirementCounts,
          due \in PlannedEndDates : createMilestone(u, amount, nreq, due)
    \/ \E u \in Users, m \in MilestoneIds, body \in MilestoneBodies :
          updateMilestone(u, m, body)
    \/ \E u \in Users, m \in MilestoneIds : startMilestone(u, m)
    \/ \E u \in Users, m \in MilestoneIds : completeMilestone(u, m)
    \/ \E u \in Users, m \in MilestoneIds : verifyMilestone(u, m)
    \/ \E u \in Users, m \in MilestoneIds : approveMilestone(u, m)
    \/ \E u \in Users, m \in MilestoneIds, txHash \in TxHashes :
          releaseSubsidy(u, m, txHash)
    \/ \E u \in Users, body \in ProjectBodies : updateProject(u, body)
    \/ \E u \in Users, a \in Users : assignAuditor(u, a)

Spec == Init /\ [][Next]_vars

\* The store after one milestone was created (createMilestone by the owning
\* producer), as the oracle service and the schedulers find it
OneMilestone ==
    /\ kyc = [u \in Users |-> "approved"]
    /\ project = [ producer |-> "p1", auditor |-> "a1",
                   totalSubsidy |-> 2, released |-> 0,
                   status |-> "pending", approvalStatus |-> "pending",
                   milestoneCount |-> 1, completedMilestones |-> 0,
                   progressPercentage |-> 0 ]
    /\ audits = <<>>
    /\ now = 1
    /\ resp = NoRequest
    /\ inflight = {}

InitOracle ==
    /\ OneMilestone
    /\ \E amount \in SubsidyAmounts, nreq \in RequirementCounts :
          milestones = << MilestonePreSave(NewMilestone(amount, nreq, 1), 1) >>
    /\ oracle = NoOracleRun

NextOracle ==
    \E responses \in [ProviderIds -> ProviderOutcomes], hashOk \in BOOLEAN :
        fetchMilestoneData(1, responses, hashOk)

SpecOracle == InitOracle /\ [][NextOracle]_vars

\* The audit collection under review: it holds at most one record, of a kind
\* the handlers above write (a subsidy release, a denied access)
AuditRecords ==
    { logBlockchainTransaction(<<>>, h, "g1").log : h \in TxHashes }
      \cup { logSecurityEvent(<<>>, "access_denied", "requester", "medium").log }
      \cup { <<>> }

InitReview ==
    /\ \E k \in KycStored : kyc = [u \in Users |-> k]
    /\ project = [ producer |-> "p1", auditor |-> "a1",
                   totalSubsidy |-> 2, released |-> 0,
                   status |-> "pending", approvalStatus |-> "pending",
                   milestoneCount |-> 0, completedMilestones |-> 0,
                   progressPercentage |-> 0 ]
    /\ milestones = <<>>
    /\ audits \in AuditRecords
    /\ now = 1
    /\ resp = NoRequest
    /\ oracle = NoOracleRun
    /\ inflight = {}

NextReview ==
    \/ Tick
    \/ \E u \in Users, id \in 1..MaxAudits : flagAuditLog(u, id)
    \/ \E u \in Users, id \in 1..MaxAudits : reviewAuditLog(u, id)

SpecReview == InitReview /\ [][NextReview]_vars

\* Bodies of PUT /milestones/:id used with the overdue sweep
SweepBodies == {[completionPercentage |-> 100], [status |-> "pending"]}

InitSweep ==
    /\ OneMilestone
    /\ \E amount \in SubsidyAmounts, nreq \in RequirementCounts :
          milestones = << MilestonePreSave(NewMilestone(amount, nreq, 1), 1) >>
    /\ oracle = NoOracleRun

NextSweep ==
    \/ Tick
    \/ checkOverdueMilestones
    \/ \E u \in Users, body \in SweepBodies : updateMilestone(u, 1, body)
    \/ \E u \in Users : startMilestone(u, 1)
    \/ \E u \in Users : completeMilestone(u, 1)

SpecSweep == InitSweep /\ [][NextSweep]_vars

\* A milestone at a stage of its lifecycle, as the handlers leave it, and the
\* project's second milestone, which is pending and not yet due
RaceStages == {"in_progress", "verified", "approved"}

RaceMilestone(stage, amount) ==
    LET created   == MilestonePreSave(NewMilestone(amount, 0, 1), 1)
        started   == Milestone_start(created, "p1", 1)
        completed == Milestone_complete(started, "p1", 1)
        verified  == Milestone_verify(completed, "a1", 1)
    IN  IF stage = "in_progress" THEN started
        ELSE IF stage = "verified" THEN verified
        ELSE Milestone_approve(verified, "g1", 1)

RaceProject(stage) ==
    LET p == [ producer |-> "p1", auditor |-> "a1",
               totalSubsidy |-> 2, released |-> 0,
               status |-> "pending", approvalStatus |-> "pending",
               milestoneCount |-> 2, completedMilestones |-> 0,
               progressPercentage |-> 0 ]
    IN  IF stage = "in_progress" THEN p
        ELSE Project_completeMilestone(p, 0).doc

InitRace ==
    /\ kyc = [u \in Users |-> "approved"]
    /\ \E stage \in RaceStages, amount \in SubsidyAmounts :
          /\ milestones = << RaceMilestone(stage, amount),
                             MilestonePreSave(NewMilestone(amount, 0, MaxTime), 1) >>
          /\ project = RaceProject(stage)
    /\ audits = <<>>
    /\ now = 1
    /\ resp = NoRequest
    /\ oracle = NoOracleRun
    /\ inflight = {}

NextRace ==
    \/ Tick
    \/ \E u \in RaceUsers, m \in MilestoneIds, h \in TxHashes : releaseRead(u, m, h)
    \/ \E r \in inflight : releaseSaveMilestone(r)
    \/ \E r \in inflight : releaseReadProject(r)
    \/ \E r \in inflight : releaseSaveProject(r)
    \/ \E u \in RaceUsers, m \in MilestoneIds : approveRead(u, m)
    \/ \E r \in inflight : approveSave(r)
    \/ \E u \in RaceUsers, m \in MilestoneIds : completeRead(u, m)
    \/ \E r \in inflight : completeSaveMilestone(r)
    \/ \E r \in inflight : completeSaveProject(r)
    \/ \E m \in MilestoneIds : sweepRead(m)
    \/ \E r \in inflight : sweepSave(r)

SpecRace == InitRace /\ [][NextRace]_vars

\* Bodies of PUT /projects/:id that name the approval gate's fields
ApprovalBodies ==
    {[approvalStatus |-> "approved"], [approvalStatus |-> "pending"],
     [status |-> "active"]}

NextApproval ==
    \/ \E u \in Users, body \in ApprovalBodies : updateProject(u, body)
    \/ \E u \in Users : approveProject(u)
    \/ \E u \in Users : rejectProject(u)
    \/ \E u \in Users, a \in Users : assignAuditor(u, a)

SpecApproval == Init /\ [][NextApproval]_vars

\* The approval gate beside the requests that save the project
NextProject ==
    \/ \E u \in Users, amount \in SubsidyAmounts, nreq \in RequirementCounts,
          due \in PlannedEndDates : createMilestone(u, amount, nreq, due)
    \/ \E u \in Users, m \in MilestoneIds : completeMilestone(u, m)
    \/ \E u \in Users, body \in ApprovalBodies : updateProject(u, body)
    \/ \E u \in Users : approveProject(u)
    \/ \E u \in Users : rejectProject(u)

SpecProject == Init /\ [][NextProject]_vars

\* A milestone of some category with its performance targets, and what the
\* providers report about its project
InitRules ==
    /\ OneMilestone
    /\ milestones = << MilestonePreSave(NewMilestone(1, 0, 1), 1) >>
    /\ \E category \in Categories, n \in 0..MaxTargets, readings \in Readings :
          \E targets \in [1..n -> [parameter : Parameters, targetValue : TargetValues]] :
             oracle = [ ran |-> FALSE, category |-> category, targets |-> targets,
                        readings |-> readings, consensus |-> FALSE,
                        verificationScore |-> 0, verified |-> FALSE ]

SpecRules == InitRules /\ [][verifyMilestoneCompletion]_vars

NextErrors ==
    \E mounted \in {"errorHandler.js", "error.middleware.js"},
       err \in ErrorsThrown, u \in Users \cup {"none"} :
          handleError(mounted, err, u)

SpecErrors == Init /\ [][NextErrors]_vars

InitLimiter ==
    /\ OneMilestone
    /\ milestones = <<>>
    /\ oracle = [ attempts |-> [k \in LimiterKeys |-> NoEntry], served |-> 0 ]

NextLimiter ==
    \/ \E key \in LimiterKeys : limitedRequest(key)
    \/ Elapse

SpecLimiter == InitLimiter /\ [][NextLimiter]_vars

InitLogin ==
    /\ OneMilestone
    /\ milestones = <<>>
    /\ oracle = [ loginAttempts |-> 0, lockUntil |-> 0, failed |-> 0, logins |-> 0 ]

NextLogin ==
    \/ \E isMatch \in BOOLEAN : login(isMatch)
    \/ Elapse

SpecLogin == InitLogin /\ [][NextLogin]_vars

----------------------------------------------------------------------------
(* Properties *)

\* The caller passes the role checks of the gate operation op
PassesRoleChecks(op, u) ==
    IF op = "verify"
    THEN role(u) = "auditor" /\ project.auditor = u
    ELSE role(u) = "government"

\* The operation op on milestone m is out of order in the current state
OutOfOrder(op, m) ==
    \/ op = "verify" /\ milestones[m].status # "completed"
    \/ op = "approve" /\ ~milestones[m].isVerified
    \/ op = "release" /\ ~milestones[m].isApproved

\* The sum of subsidyAmount over the released milestones among the first n
RECURSIVE ReleasedSum(_)
ReleasedSum(n) ==
    IF n = 0 THEN 0
    ELSE ReleasedSum(n - 1) +
         (IF milestones[n].released THEN milestones[n].subsidyAmount ELSE 0)

LifecycleOps == {"create", "start", "complete", "verify", "approve", "release"}

\* C1: in every reachable state every milestone that is released is approved,
\* and every milestone that is approved is verified.
C1_GateOrder ==
    \A m \in DOMAIN milestones :
        /\ milestones[m].released => milestones[m].isApproved
        /\ milestones[m].isApproved => milestones[m].isVerified

\* C1 happens: a release-subsidy request has released a milestone
C1_Witness ==
    /\ resp.op = "release" /\ resp.code = 200
    /\ \E m \in DOMAIN milestones :
          milestones[m].released /\ milestones[m].isApproved /\ milestones[m].isVerified

\* C2: a verify on a milestone that is not completed, an approve on an
\* unverified milestone and a release on an unapproved milestone fail (with
\* 400 for a caller who passes the role checks), leave the milestones and the
\* project as they were, and write no Audit record of a transition.
C2_OutOfOrderRejected ==
    [][ ( /\ resp'.op \in {"verify", "approve", "release"}
          /\ resp'.m \in DOMAIN milestones
          /\ OutOfOrder(resp'.op, resp'.m) )
        => /\ resp'.code \in {400, 403}
           /\ PassesRoleChecks(resp'.op, resp'.actor) => resp'.code = 400
           /\ milestones' = milestones
           /\ project' = project
           /\ \/ audits' = audits
              \/ /\ Len(audits') = Len(audits) + 1
                 /\ audits'[Len(audits')].eventType = "access_denied" ]_vars

\* C2 happens: the assigned auditor's verify on a milestone in progress was
\* answered 400
C2_Witness ==
    /\ resp.op = "verify" /\ resp.code = 400 /\ resp.actor = project.auditor
    /\ resp.m \in DOMAIN milestones
    /\ milestones[resp.m].status = "in_progress"
    /\ ~milestones[resp.m].isVerified

\* C3: after every release of a subsidy the project's released total is at
\* most its total subsidy.
C3_ReleasedWithinTotal ==
    (resp.op = "release" /\ resp.code = 200) =>
        project.released <= project.totalSubsidy

\* C4: the project's released total equals the sum of subsidyAmount over its
\* released milestones.
C4_ReleasedIsSum ==
    project.released = ReleasedSum(Len(milestones))

\* C5: a lifecycle operation that has changed a milestone has written exactly
\* one Audit record whose resource is that milestone.
C5_OneAuditPerTransition ==
    [][ (resp'.op \in LifecycleOps /\ resp'.savedM # {})
        => /\ Len(audits') = Len(audits) + 1
           /\ audits'[Len(audits')].resourceType = "milestone" ]_vars

\* C6: a producer's verify or approve is answered 403 and changes neither the
\* milestones nor the project; the verification gate is set only by a verify
\* of the auditor assigned to the project, the approval gate only by an
\* approve of a government user, the released flag only by a release of a
\* government user.
C6_RoleEnforcement ==
    [][ /\ (resp'.op \in {"verify", "approve"} /\ role(resp'.actor) = "producer")
           => (resp'.code = 403 /\ milestones' = milestones /\ project' = project)
        /\ \A m \in DOMAIN milestones :
              /\ (~milestones[m].isVerified /\ milestones'[m].isVerified)
                 => ( resp'.op = "verify" /\ role(resp'.actor) = "auditor"
                      /\ project.auditor = resp'.actor )
              /\ (~milestones[m].isApproved /\ milestones'[m].isApproved)
                 => (resp'.op = "approve" /\ role(resp'.actor) = "government")
              /\ (~milestones[m].released /\ milestones'[m].released)
                 => (resp'.op = "release" /\ role(resp'.actor) = "government") ]_vars

\* C6 happens: the owning producer's verify on a completed milestone was
\* answered 403
C6_Witness ==
    /\ resp.op = "verify" /\ resp.actor = project.producer /\ resp.code = 403
    /\ resp.m \in DOMAIN milestones
    /\ milestones[resp.m].status = "completed"
    /\ ~milestones[resp.m].isVerified

\* C7: a verify on a verified milestone fails (with 400 for the assigned
\* auditor) and leaves the verifier and the verification date as they were;
\* an approve on an approved milestone fails (with 400 for a government user)
\* and leaves the approver and the approval date as they were.
C7_GatesSetOnce ==
    [][ \A m \in DOMAIN milestones :
          /\ (resp'.op = "verify" /\ resp'.m = m /\ milestones[m].isVerified)
             => /\ resp'.code \in {400, 403}
                /\ PassesRoleChecks("verify", resp'.actor) => resp'.code = 400
                /\ milestones'[m].isVerified
                /\ milestones'[m].verifiedBy = milestones[m].verifiedBy
                /\ milestones'[m].verificationDate = milestones[m].verificationDate
          /\ (resp'.op = "approve" /\ resp'.m = m /\ milestones[m].isApproved)
             => /\ resp'.code \in {400, 403}
                /\ PassesRoleChecks("approve", resp'.actor) => resp'.code = 400
                /\ milestones'[m].isApproved
                /\ milestones'[m].approvedBy = milestones[m].approvedBy
                /\ milestones'[m].approvalDate = milestones[m].approvalDate ]_vars

\* C7 happens: the assigned auditor's verify on a milestone verified at an
\* earlier time was answered 400
C7_Witness ==
    /\ resp.op = "verify" /\ resp.code = 400 /\ resp.actor = project.auditor
    /\ resp.m \in DOMAIN milestones
    /\ milestones[resp.m].isVerified
    /\ milestones[resp.m].verificationDate < now

\* C8: a milestone that is released stays released in every later state.
C8_ReleasedMonotonic ==
    [][ \A m \in DOMAIN milestones :
          milestones[m].released => milestones'[m].released ]_vars

\* C8 happens: a PUT has changed a released milestone
C8_Witness ==
    /\ resp.op = "update" /\ resp.m \in DOMAIN milestones
    /\ milestones[resp.m].released
    /\ milestones[resp.m].status = "overdue"

\* C9: after every save of a project with milestoneCount > 0,
\* progressPercentage = round(completedMilestones / milestoneCount * 100).
C9_ProgressAfterSave ==
    (resp.savedP /\ project.milestoneCount > 0) =>
        project.progressPercentage * 2 * project.milestoneCount
            \in  (200 * project.completedMilestones - project.milestoneCount + 1)
              .. (200 * project.completedMilestones + project.milestoneCount)

\* C9 happens: a project with two of three milestones completed was saved
C9_Witness ==
    /\ resp.savedP
    /\ project.milestoneCount = 3
    /\ project.completedMilestones = 2

\* C10: after every save of a milestone its status is completed exactly when
\* its completionPercentage is 100.
C10_CompletedIff100 ==
    \A m \in resp.savedM :
        (milestones[m].status = "completed") <=>
        (milestones[m].completionPercentage = 100)

TransitionOps == {"start", "complete", "verify", "approve", "release"}

\* C11: every start, complete, verify, approve and release that has changed
\* a milestone has appended exactly one entry to its updates log and kept
\* the earlier entries as they were.
C11_UpdatesAppendOne ==
    [][ \A m \in DOMAIN milestones :
          (resp'.op \in TransitionOps /\ resp'.m = m /\ m \in resp'.savedM)
          => /\ Len(milestones'[m].updates) = Len(milestones[m].updates) + 1
             /\ SubSeq(milestones'[m].updates, 1, Len(milestones[m].updates))
                  = milestones[m].updates ]_vars

\* The sum of the configured weights of the providers in the set ps
RECURSIVE WeightOf(_)
WeightOf(ps) ==
    IF ps = {} THEN 0
    ELSE LET p == CHOOSE q \in ps : TRUE
         IN  weight(p) + WeightOf(ps \ {p})

\* The providers that responded with data in the oracle's last run
Responders == {p \in ProviderIds : oracle.responses[p] = "data"}

\* C12: the verification score of a run is the weight of the providers that
\* responded with data over the weight of all configured providers, and
\* consensus holds exactly when that ratio is at least 0.75.
C12_WeightedScore ==
    oracle.ran =>
      /\ oracle.verificationScore * WeightOf(ProviderIds)
            = 100 * WeightOf(Responders)
      /\ oracle.consensus <=>
            (100 * WeightOf(Responders) >= 75 * WeightOf(ProviderIds))

\* C12 happens: two of the three providers responded, their weight is below
\* the threshold and the run reports no consensus
C12_Witness ==
    /\ oracle.ran
    /\ Responders = {"weather", "energy"}
    /\ oracle.verificationScore = 70
    /\ ~oracle.consensus

\* C13: a provider that failed with a network error or a non-success
\* response is in the sources of the run's result with verified = FALSE.
C13_FailureRecorded ==
    oracle.ran =>
      \A p \in ProviderIds :
        oracle.responses[p] \in {"http_error", "network_error"}
        => \E i \in DOMAIN oracle.sources :
              /\ oracle.sources[i].providerId = p
              /\ ~oracle.sources[i].verified

\* C14: a review request on an Audit record that is already reviewed is
\* refused by the already-reviewed guard, and the record keeps the reviewer
\* and the review date the first review gave it.
C14_ReviewOnce ==
    [][ \A id \in DOMAIN audits :
          (resp'.op = "review" /\ resp'.m = id /\ audits[id].reviewed)
          => /\ resp'.code \in {400, 403}
             /\ audits'[id].reviewed
             /\ audits'[id].reviewedBy = audits[id].reviewedBy
             /\ audits'[id].reviewedAt = audits[id].reviewedAt ]_vars

\* A later review by another reviewer was refused; the first review stands
C14_Witness ==
    /\ resp.op = "review" /\ resp.code = 400
    /\ role(resp.actor) \in {"government", "auditor"}
    /\ resp.m \in DOMAIN audits
    /\ audits[resp.m].reviewed
    /\ audits[resp.m].reviewedAt < now
    /\ audits[resp.m].reviewedBy \notin {resp.actor, "none"}

\* The milestones the overdue sweep's query selects
PastDue ==
    { m \in DOMAIN milestones :
        /\ milestones[m].plannedEndDate < now
        /\ milestones[m].status \in {"pending", "in_progress"} }

\* C15: a run of the overdue sweep leaves every milestone that was past its
\* planned end date and pending or in progress with status overdue and
\* notifies the producer about it; a run that directly follows a run
\* selects no milestone, changes no status and sends no notification.
C15_SweepIdempotent ==
    [][ resp'.op = "sweep"
        => /\ \A m \in PastDue :
                 milestones'[m].status = "overdue" /\ m \in resp'.notified
           /\ resp.op = "sweep"
                 => /\ PastDue = {}
                    /\ milestones' = milestones
                    /\ resp'.notified = {} ]_vars

\* The request r takes the step at its await pc
Steps(r, op, pc) ==
    r.op = op /\ r.pc = pc /\ r \notin inflight'

\* C16: a releaseSubsidy request that passed the released = false check is not
\* checked again when it writes: its milestone save goes through and it goes
\* on to the project even if the stored milestone has been released in the
\* meantime, and its project save adds the milestone's subsidyAmount to the
\* released total it read.  Two concurrent requests can so both pass the
\* check and raise the project's released total twice.
C16_ReleaseCheckNotAtomic ==
    [][ \A r \in inflight :
          /\ Steps(r, "release", "saveMilestone")
                => /\ milestones'[r.m].released
                   /\ [r EXCEPT !.pc = "readProject"] \in inflight'
          /\ (Steps(r, "release", "saveProject") /\ resp'.code = 200)
                => project'.released = r.proj.released + r.doc.subsidyAmount ]_vars

\* Two releases of the same milestone were both answered with success and the
\* project's released total, 0 before, is twice the milestone's subsidyAmount
C16_Witness ==
    /\ \E r1, r2 \in inflight :
          /\ r1.rid # r2.rid /\ r1.m = 1 /\ r2.m = 1
          /\ r1.op = "release" /\ r1.pc = "done" /\ r1.code = 200
          /\ r2.op = "release" /\ r2.pc = "done" /\ r2.code = 200
          /\ ~r1.base.released /\ ~r2.base.released
    /\ milestones[1].released
    /\ project.released = 2 * milestones[1].subsidyAmount

\* C17: an approve request that passed the not-already-approved check
\* returns success when it writes, whatever another approve request has
\* written in the meantime, and leaves its own approver and approval date
\* in the milestone (the last write wins).
C17_RacingApprovesSucceed ==
    [][ \A r \in inflight :
          Steps(r, "approve", "saveMilestone")
          => /\ resp'.code = 200
             /\ milestones'[r.m].isApproved
             /\ milestones'[r.m].approvedBy = r.doc.approvedBy
             /\ milestones'[r.m].approvalDate = r.doc.approvalDate ]_vars

\* C18: a run of the overdue sweep that writes a milestone whose complete
\* transition is stored does not leave the milestone with status overdue.
C18_SweepKeepsCompleted ==
    [][ \A r \in inflight :
          (Steps(r, "sweep", "saveMilestone")
             /\ milestones[r.m].status = "completed")
          => milestones'[r.m].status # "overdue" ]_vars

\* C19: the project counts each of its milestones at most once as completed:
\* completedMilestones never exceeds milestoneCount and progressPercentage
\* never exceeds 100.
C19_CountedOnce ==
    /\ project.completedMilestones <= project.milestoneCount
    /\ project.progressPercentage <= 100

\* C20: a project's approvalStatus becomes approved only in an approveProject
\* request of a government user, and no request of a producer changes a
\* project's approvalStatus.
C20_ApprovalGate ==
    [][ project'.approvalStatus # project.approvalStatus
        => /\ role(resp'.actor) # "producer"
           /\ project'.approvalStatus = "approved"
                 => /\ resp'.op = "approveProject"
                    /\ role(resp'.actor) = "government" ]_vars

\* C21: a create, start, complete, verify, approve or release request that is
\* answered with an error leaves the milestones and the project as they were.
C21_ErrorLeavesState ==
    [][ (resp'.op \in LifecycleOps /\ resp'.code >= 400)
        => milestones' = milestones /\ project' = project ]_vars

\* C22: a complete request of the project's producer on a milestone that is
\* pending, in progress or overdue leaves the milestone completed with
\* completionPercentage 100 and adds exactly one to the project's
\* completedMilestones; on a completed milestone it fails and changes nothing.
C22_CompleteEffect ==
    [][ \A m \in DOMAIN milestones :
          ( /\ resp'.op = "complete" /\ resp'.m = m
            /\ role(resp'.actor) = "producer" /\ project.producer = resp'.actor )
          => IF milestones[m].status \in {"pending", "in_progress", "overdue"}
             THEN /\ milestones'[m].status = "completed"
                  /\ milestones'[m].completionPercentage = 100
                  /\ project'.completedMilestones = project.completedMilestones + 1
             ELSE milestones[m].status = "completed"
                  => /\ resp'.code >= 400
                     /\ milestones' = milestones /\ project' = project ]_vars

\* C23: a start request changes a milestone only for the producer of the
\* project and only from status pending, and every start that was carried
\* out leaves the milestone stored with status in_progress, whatever its
\* planned end date.
C23_StartEffect ==
    [][ \A m \in DOMAIN milestones :
          (resp'.op = "start" /\ resp'.m = m /\ m \in resp'.savedM)
          => /\ role(resp'.actor) = "producer" /\ project.producer = resp'.actor
             /\ milestones[m].status = "pending"
             /\ milestones'[m].status = "in_progress" ]_vars

\* C24: a milestone's status changes to overdue only in a step before which
\* the milestone was pending or in progress and its planned end date had
\* passed.
C24_OverdueOnlyPastDue ==
    [][ \A m \in DOMAIN milestones :
          (milestones'[m].status = "overdue" /\ milestones[m].status # "overdue")
          => /\ milestones[m].status \in {"pending", "in_progress"}
             /\ milestones[m].plannedEndDate < now ]_vars

\* C25: an approveProject request that is carried out makes the project
\* active (and fails, changing nothing, if the project is approved already);
\* a save at which the project is active and its progressPercentage is 100
\* makes it completed; a save of a project that is not active does not make
\* it completed.
C25_ProjectLifecycle ==
    [][ /\ (resp'.op = "approveProject" /\ resp'.savedP)
             => /\ role(resp'.actor) = "government"
                /\ project.approvalStatus # "approved"
                /\ project'.approvalStatus = "approved"
                /\ project'.status = IF project'.progressPercentage = 100
                                     THEN "completed" ELSE "active"
        /\ (resp'.op = "approveProject" /\ project.approvalStatus = "approved")
             => resp'.code >= 400 /\ project' = project
        /\ ( /\ resp'.savedP /\ resp'.op # "rejectProject"
             /\ project.status = "active" /\ project'.progressPercentage = 100 )
             => project'.status = "completed"
        /\ ( /\ resp'.savedP /\ resp'.op # "approveProject"
             /\ project.status \notin {"active", "completed"} )
             => project'.status # "completed" ]_vars

\* An approved project became completed at the save of a complete request
C25_Witness ==
    /\ resp.op = "complete" /\ resp.savedP
    /\ project.approvalStatus = "approved"
    /\ project.status = "completed"
    /\ project.progressPercentage = 100

\* The aggregated field of a target's parameter is available
Available(target) ==
    /\ parameterMap(target.parameter) \in DOMAIN aggregatedData(oracle.readings).num

\* The aggregated value of an available target reaches the target value
Achieved(target) ==
    aggregatedData(oracle.readings).num[parameterMap(target.parameter)]
        >= target.targetValue * aggregatedData(oracle.readings).den

\* C26: the verification rules follow the milestone's category.  A
\* Performance Milestone is verified only if every target whose aggregated
\* field is available has actual >= target, and targets without a field do
\* not count against it; a Testing & Commissioning milestone is not verified
\* when the compliance score reported for it is below 0.8; a milestone of
\* any other category is verified exactly when consensus holds.
C26_CategoryRules ==
    oracle.ran =>
      CASE oracle.category = "Performance Milestone" ->
             oracle.verified <=>
               /\ oracle.consensus
               /\ \A i \in DOMAIN oracle.targets :
                     Available(oracle.targets[i]) => Achieved(oracle.targets[i])
        [] oracle.category = "Testing & Commissioning" ->
             (oracle.readings.certification # -1 /\ oracle.readings.certification < 8)
               => ~oracle.verified
        [] OTHER -> oracle.verified <=> oracle.consensus

\* The status code of an error's class
ClassStatus(err) ==
    CASE err.name = "ErrorResponse" -> err.statusCode
      [] err.name = "CastError" -> 404
      [] err.name \in {"MongoServerError", "ValidationError"} -> 400
      [] err.name \in {"JsonWebTokenError", "TokenExpiredError"} -> 401
      [] err.code = "ECONNREFUSED" -> 503
      [] OTHER -> 500

\* C27: every error that reaches the error handler is answered with the
\* status code of its class, and every answer with status 500 or above
\* creates an Audit record.
C27_ErrorResponses ==
    [][ resp'.op = "error"
        => \A e \in inflight' :
              /\ resp'.code = ClassStatus(e.err)
              /\ resp'.code >= 500 => Len(audits') = Len(audits) + 1 ]_vars

\* The requests of a key the limiter passed on in the window that starts at
\* first
PassedInWindow(passed, key, first) ==
    { r \in passed : r.key = key /\ r.at >= first /\ r.at <= first + windowMs }

\* C28: for every key at most maxAttempts requests are passed on within
\* windowMs of the key's first counted request, every further request in
\* that window is answered 429, and the first request after the window has
\* elapsed is passed on and starts a new window with count 1.
C28_RateLimit ==
    [][ \A key \in LimiterKeys :
          (resp'.op = "limited" /\ resp'.actor = key /\ oracle' # oracle)
          => LET e == oracle.attempts[key]
                 live == e.count > 0 /\ now - e.firstAttempt <= windowMs
             IN  /\ live /\ Cardinality(PassedInWindow(inflight, key, e.firstAttempt))
                             >= maxAttempts
                     => resp'.code = 429 /\ inflight' = inflight
                 /\ ~live
                     => /\ resp'.code = 200
                        /\ oracle'.attempts[key] = [count |-> 1, firstAttempt |-> now]
                 /\ Cardinality(PassedInWindow(inflight', key,
                                    oracle'.attempts[key].firstAttempt))
                      <= maxAttempts ]_vars

\* a request refused in a full window, and then a new window after it
C28_Witness ==
    \E key \in LimiterKeys :
       /\ resp.op = "limited" /\ resp.actor = key /\ resp.code = 200
       /\ oracle.attempts[key] = [count |-> 1, firstAttempt |-> now]
       /\ Cardinality({ r \in inflight : r.key = key }) = maxAttempts + 1
       /\ oracle.served > maxAttempts + 1

\* C29: the fifth consecutive failed password attempt locks the account
\* (lockUntil two hours ahead); while lockUntil has not passed every login
\* attempt is rejected as locked (423); a failed attempt after an expired
\* lock restarts the counter at 1; a successful login clears the counter
\* and the lock.
C29_Lockout ==
    [][ (resp'.op = "login" /\ oracle'.logins = oracle.logins + 1)
        => /\ (oracle.failed = 4 /\ oracle'.failed = 5 /\ oracle.lockUntil = 0)
                => oracle'.lockUntil = now + LockTime
           /\ (oracle.lockUntil # 0 /\ oracle.lockUntil > now)
                => resp'.code = 423
           /\ (oracle'.failed > 0 /\ oracle.lockUntil # 0 /\ oracle.lockUntil < now)
                => oracle'.loginAttempts = 1
           /\ resp'.code = 200
                => oracle'.loginAttempts = 0 /\ oracle'.lockUntil = 0 ]_vars

\* C30: a government user whose KYC status is verified passes the KYC guard
\* on milestone creation: the request is not refused with 403.
C30_VerifiedPassesKYC ==
    (resp.op = "create" /\ role(resp.actor) = "government"
        /\ kyc[resp.actor] = "verified")
    => resp.code # 403

====
